---- MODULE Spec2Model ----
(***************************************************************************)
(* ANYToken-distribution: the endpoint gateway (callapi.APICaller and the  *)
(* syncer's client list) and the reward sending pipeline                   *)
(* (distributer.BuildTxArgs, Option.SendRewardsFromFile).                  *)
(*                                                                         *)
(* Go pointers are sequences: <<>> is nil, <<v>> points at v.              *)
(* A gateway error is a number: 0 is nil, e > 0 is the error e.            *)
(* A pipeline error is a string: "" is nil.                                *)
(***************************************************************************)
EXTENDS Integers, Sequences, FiniteSets, TLC

\* ------------------------------------------------------------- bounds
\* endpoints a gateway is dialled with (at most)
MaxClients == 3
\* distinct errors an endpoint can answer with
MaxErr == 2
\* distinct values an endpoint can answer a read with
MaxVal == 2
\* the pending nonce an endpoint reports is in 0..MaxLiveNonce
MaxLiveNonce == 2
\* entries of an input file (at most)
MaxEntries == 3
\* rpcRetryCount is at most MaxRetry
MaxRetry == 3

\* ------------------------------------------------------------- state
VARIABLES
  \* callapi.APICaller.clients / syncer.clients: the connected endpoints, in order
  clients,
  \* which client list this run exercises: "callapi" or "syncer"
  gw,
  \* "dial" before DialServer, "up" after it returned nil, "failed" after it returned an error
  gwPc,
  \* the last gateway operation called: its name, the endpoints' answers, and what it returned
  gwOp, gwResp, gwRet,
  \* the last DialServer call: the urls it was given, which of them can be connected,
  \* the urls ethclient.Dial was called with (in order), and the error returned
  serverURL, dialOk, dialled, dialErr,
  \* callapi.APICaller.rpcRetryCount
  rpcRetryCount,
  \* the last retry-wrapped operation: what each call of the failover operation
  \* returned (in order), and how often time.Sleep(rpcRetryInterval) was called
  gwTries, gwSleeps,
  \* BuildTxArgs
  Sender, keyWrapper, fromAddr, chainID, chainSigner, Nonce, GasLimit, GasPrice,
  \* Option
  DryRun, byWhat, TotalValue,
  \* SendRewardsFromFile's locals: accountStats, canSaveDB, the range index, rewardsSended
  accountStats, canSaveDB, idx, rewardsSended,
  \* the output file (the ledger): its lines in order
  output,
  \* where the command is, and what it returned ("" while running or on success)
  pc, ret,
  \* history: every pass through sendRewardsTransaction's signing and sending,
  \* and the nonce bookkeeping of the last one
  attempts, lastSend,
  \* history: "no" before CheckSenderRewardTokenBalance returned, then "failed" or "passed"
  balanceChecked,
  \* history: what GetAccountsAndRewardsFromFile returned when it returned no error
  \* (the number of accounts and the title line), <<>> before and otherwise
  fileRead

gwVars == <<clients, gw, gwPc, gwOp, gwResp, gwRet, serverURL, dialOk, dialled, dialErr,
           rpcRetryCount, gwTries, gwSleeps>>
argsVars == <<Sender, keyWrapper, fromAddr, chainID, chainSigner, Nonce, GasLimit, GasPrice>>
optVars == <<DryRun, byWhat, TotalValue>>
runVars == <<accountStats, canSaveDB, idx, rewardsSended, output, pc, ret, attempts, lastSend,
             balanceChecked, fileRead>>
vars == <<gwVars, argsVars, optVars, runVars>>

\* ------------------------------------------------------------- the endpoint gateway

\* What an endpoint answers: an error (and the zero value), or a value from vals.
Answers(vals) ==
  [err : 1..MaxErr, val : {0}] \cup [err : {0}, val : vals]

\* One answer per endpoint.
RespVectors(vals) == [1..MaxClients -> Answers(vals)]

\* The zero values of a gateway operation's named results, before any endpoint is tried.
ZeroRet == [val |-> 0, err |-> 0, tried |-> <<>>]

\* A variant that keeps the first error instead of the last.
RECURSIVE RangeClientsFirstErr(_, _, _, _)
RangeClientsFirstErr(cs, resp, i, r) ==
  IF i > Len(cs) THEN r
  ELSE LET a == resp[cs[i]]
           t == Append(r.tried, cs[i])
       IN IF a.err = 0
            THEN [val |-> a.val, err |-> 0, tried |-> t]
            ELSE RangeClientsFirstErr(cs, resp, i + 1,
                   [val |-> a.val, err |-> IF r.err = 0 THEN a.err ELSE r.err, tried |-> t])

\* A variant that goes on to the next endpoint after a success.
RECURSIVE RangeClientsNoReturn(_, _, _, _)
RangeClientsNoReturn(cs, resp, i, r) ==
  IF i > Len(cs) THEN r
  ELSE LET a == resp[cs[i]]
       IN RangeClientsNoReturn(cs, resp, i + 1,
            [val |-> a.val, err |-> a.err, tried |-> Append(r.tried, cs[i])])

\* for _, client := range c.clients { res, err = client.Op(...); if err == nil { return } }; return
\* from the i-th client on, r holding the named results so far
RECURSIVE RangeClients(_, _, _, _)
RangeClients(cs, resp, i, r) ==
  IF i > Len(cs) THEN r
  ELSE LET a == resp[cs[i]]
           t == Append(r.tried, cs[i])
       IN IF a.err = 0
            THEN [val |-> a.val, err |-> 0, tried |-> t]
            ELSE RangeClients(cs, resp, i + 1, [val |-> a.val, err |-> a.err, tried |-> t])

BalanceAt(cs, resp) == RangeClients(cs, resp, 1, ZeroRet)
GetAccountNonce(cs, resp) == RangeClients(cs, resp, 1, ZeroRet)
\* A variant that offers the transaction to every endpoint, accepted or not.
SendTransactionToAll(cs, resp) == RangeClientsNoReturn(cs, resp, 1, ZeroRet)

SendTransaction(cs, resp) == RangeClients(cs, resp, 1, ZeroRet)
GetChainID(cs, resp) == RangeClients(cs, resp, 1, ZeroRet)
SuggestGasPrice(cs, resp) == RangeClients(cs, resp, 1, ZeroRet)
SyncProgress(cs, resp) == RangeClients(cs, resp, 1, ZeroRet)
DoCall(cs, resp) == RangeClients(cs, resp, 1, ZeroRet)
HeaderByNumber(cs, resp) == RangeClients(cs, resp, 1, ZeroRet)
getHeaderByNumber(cs, resp) == RangeClients(cs, resp, 1, ZeroRet)
getBlockByNumber(cs, resp) == RangeClients(cs, resp, 1, ZeroRet)
getTransactionReceipt(cs, resp) == RangeClients(cs, resp, 1, ZeroRet)

\* InitAppWithURL / syncer.Start stop the process when the dial fails: an operation
\* is called only on a gateway whose dial returned nil.
GatewayInUse == gwPc = "up"

\* An operation reads the client list and nothing else, and the record of the last
\* call is overwritten by the next: a call after another reaches the states a first
\* call reaches.  The calls explored are the first ones after the dial.
FirstCall == gwOp = "none"

\* A variant that logs the failed connection and goes on with the next url.
RECURSIVE DialFromGoOn(_, _, _, _)
DialFromGoOn(urls, ok, i, cs) ==
  IF i > Len(urls) THEN [clients |-> cs, err |-> 0, dialled |-> <<>>]
  ELSE LET rest == DialFromGoOn(urls, ok, i + 1,
                                IF ok[urls[i]] THEN Append(cs, urls[i]) ELSE cs)
       IN [rest EXCEPT !.dialled = <<urls[i]>> \o @,
                       !.err = IF ok[urls[i]] THEN @ ELSE urls[i]]

\* for _, url := range serverURL { client, err = Dial(url); if err != nil { return err }; append }
\* from the i-th url on; ok[u] says whether url u can be connected, and the error of
\* a failed connection is the url's number.  dialled: the urls Dial was called with.
RECURSIVE DialFrom(_, _, _, _)
DialFrom(urls, ok, i, cs) ==
  IF i > Len(urls) THEN [clients |-> cs, err |-> 0, dialled |-> <<>>]
  ELSE IF ~ok[urls[i]] THEN [clients |-> cs, err |-> urls[i], dialled |-> <<urls[i]>>]
  ELSE LET rest == DialFrom(urls, ok, i + 1, Append(cs, urls[i]))
       IN [rest EXCEPT !.dialled = <<urls[i]>> \o @]

\* APICaller.DialServer / syncer.dialServer with n urls
DialServer ==
  /\ gwPc = "dial"
  /\ \E n \in 0..MaxClients :
     \E ok \in [1..n -> BOOLEAN] :
       LET d == DialFrom([i \in 1..n |-> i], ok, 1, clients)
       IN /\ clients' = d.clients
          /\ gwPc' = IF d.err = 0 THEN "up" ELSE "failed"
          /\ serverURL' = [i \in 1..n |-> i]
          /\ dialOk' = ok
          /\ dialled' = d.dialled
          /\ dialErr' = d.err
  /\ UNCHANGED <<gw, gwOp, gwResp, gwRet, rpcRetryCount, gwTries, gwSleeps,
                 argsVars, optVars, runVars>>

\* One call of a gateway operation: the endpoints answer resp, the operation returns r.
Called(op, resp, r) ==
  /\ gwOp' = op
  /\ gwResp' = resp
  /\ gwRet' = r
  /\ gwTries' = <<>>
  /\ gwSleeps' = 0
  /\ UNCHANGED <<clients, gw, gwPc, serverURL, dialOk, dialled, dialErr, rpcRetryCount,
                 argsVars, optVars, runVars>>

CallBalanceAt ==
  /\ GatewayInUse /\ FirstCall /\ gw = "callapi"
  /\ \E resp \in RespVectors(1..MaxVal) : Called("BalanceAt", resp, BalanceAt(clients, resp))

CallGetAccountNonce ==
  /\ GatewayInUse /\ FirstCall /\ gw = "callapi"
  /\ \E resp \in RespVectors(1..MaxVal) :
       Called("GetAccountNonce", resp, GetAccountNonce(clients, resp))

CallSendTransaction ==
  /\ GatewayInUse /\ FirstCall /\ gw = "callapi"
  /\ \E resp \in RespVectors({0}) :
       Called("SendTransaction", resp, SendTransaction(clients, resp))

CallGetChainID ==
  /\ GatewayInUse /\ FirstCall /\ gw = "callapi"
  /\ \E resp \in RespVectors(1..MaxVal) : Called("GetChainID", resp, GetChainID(clients, resp))

CallSuggestGasPrice ==
  /\ GatewayInUse /\ FirstCall /\ gw = "callapi"
  /\ \E resp \in RespVectors(1..MaxVal) :
       Called("SuggestGasPrice", resp, SuggestGasPrice(clients, resp))

CallSyncProgress ==
  /\ GatewayInUse /\ FirstCall /\ gw = "callapi"
  /\ \E resp \in RespVectors(1..MaxVal) :
       Called("SyncProgress", resp, SyncProgress(clients, resp))

CallDoCall ==
  /\ GatewayInUse /\ FirstCall /\ gw = "callapi"
  /\ \E resp \in RespVectors(1..MaxVal) : Called("DoCall", resp, DoCall(clients, resp))

CallHeaderByNumber ==
  /\ GatewayInUse /\ FirstCall /\ gw = "callapi"
  /\ \E resp \in RespVectors(1..MaxVal) :
       Called("HeaderByNumber", resp, HeaderByNumber(clients, resp))

CallgetHeaderByNumber ==
  /\ GatewayInUse /\ FirstCall /\ gw = "syncer"
  /\ \E resp \in RespVectors(1..MaxVal) :
       Called("getHeaderByNumber", resp, getHeaderByNumber(clients, resp))

CallgetBlockByNumber ==
  /\ GatewayInUse /\ FirstCall /\ gw = "syncer"
  /\ \E resp \in RespVectors(1..MaxVal) :
       Called("getBlockByNumber", resp, getBlockByNumber(clients, resp))

CallgetTransactionReceipt ==
  /\ GatewayInUse /\ FirstCall /\ gw = "syncer"
  /\ \E resp \in RespVectors(1..MaxVal) :
       Called("getTransactionReceipt", resp, getTransactionReceipt(clients, resp))

\* ------------------------------------------------------------- the retry wrappers

\* What the wrapped failover operation can return in one attempt.
BalanceAtReturns == {BalanceAt(clients, resp) : resp \in RespVectors(1..MaxVal)}
DoCallReturns == {DoCall(clients, resp) : resp \in RespVectors(1..MaxVal)}

\* The returns of the calls a retry loop of n iterations makes, in order: failures,
\* ended by a success or by the n-th failure (no call where n <= 0).
Outcomes(n, returns) ==
  IF n <= 0 THEN {<<>>}
  ELSE UNION {{f \o <<o>> : f \in [1..(k - 1) -> {x \in returns : x.err # 0}],
                            o \in IF k = n THEN returns ELSE {x \in returns : x.err = 0}} :
              k \in 1..n}

\* The named results of a retry wrapper before its loop, with no attempt made.
ZeroRetry == [val |-> 0, err |-> 0, tries |-> <<>>, sleeps |-> 0]

\* for i := 0; i < c.rpcRetryCount; i++ { balance, err = c.BalanceAt(...);
\*   if err == nil { break } }
\* from iteration i on; outs[k] is what the k-th call of BalanceAt returns
RECURSIVE GetCoinBalanceLoop(_, _, _, _)
GetCoinBalanceLoop(n, outs, i, r) ==
  IF ~(i < n) THEN r
  ELSE LET o == outs[i + 1]
           r1 == [val |-> o.val, err |-> o.err, tries |-> Append(r.tries, o),
                  sleeps |-> r.sleeps]
       IN IF o.err = 0 THEN r1 ELSE GetCoinBalanceLoop(n, outs, i + 1, r1)

\* APICaller.GetCoinBalance: the loop, then return nil, err or return balance, nil
GetCoinBalance(n, outs) ==
  LET r == GetCoinBalanceLoop(n, outs, 0, ZeroRetry)
  IN IF r.err # 0 THEN [r EXCEPT !.val = 0] ELSE r

\* for i := 0; i < c.rpcRetryCount; i++ { res, err = c.DoCall(msg, blockNumber);
\*   if err == nil { break }; log.Error(...); time.Sleep(c.rpcRetryInterval) }
\* from iteration i on; outs[k] is what the k-th call of DoCall returns
RECURSIVE CallContractLoop(_, _, _, _)
CallContractLoop(n, outs, i, r) ==
  IF ~(i < n) THEN r
  ELSE LET o == outs[i + 1]
           r1 == [val |-> o.val, err |-> o.err, tries |-> Append(r.tries, o),
                  sleeps |-> r.sleeps]
       IN IF o.err = 0 THEN r1
          ELSE CallContractLoop(n, outs, i + 1, [r1 EXCEPT !.sleeps = @ + 1])

\* APICaller.CallContract: the loop, then return res, err
CallContract(n, outs) == CallContractLoop(n, outs, 0, ZeroRetry)

\* The endpoints consulted by the attempts, in order.
RECURSIVE TriedBy(_)
TriedBy(tries) == IF tries = <<>> THEN <<>> ELSE tries[1].tried \o TriedBy(Tail(tries))

\* One call of a retry wrapper, which returns r.
CalledRetry(op, r) ==
  /\ gwOp' = op
  /\ gwResp' = [i \in 1..MaxClients |-> [err |-> 0, val |-> 0]]
  /\ gwRet' = [val |-> r.val, err |-> r.err, tried |-> TriedBy(r.tries)]
  /\ gwTries' = r.tries
  /\ gwSleeps' = r.sleeps
  /\ UNCHANGED <<clients, gw, gwPc, serverURL, dialOk, dialled, dialErr, rpcRetryCount,
                 argsVars, optVars, runVars>>

CallGetCoinBalance ==
  /\ GatewayInUse /\ FirstCall /\ gw = "callapi"
  /\ \E outs \in Outcomes(rpcRetryCount, BalanceAtReturns) :
       CalledRetry("GetCoinBalance", GetCoinBalance(rpcRetryCount, outs))

CallCallContract ==
  /\ GatewayInUse /\ FirstCall /\ gw = "callapi"
  /\ \E outs \in Outcomes(rpcRetryCount, DoCallReturns) :
       CalledRetry("CallContract", CallContract(rpcRetryCount, outs))

\* ------------------------------------------------------------- the idle halves

\* The pipeline before anything ran (the gateway specification leaves it there).
PipelineIdle ==
  /\ Sender = "" /\ keyWrapper = <<>> /\ fromAddr = "Z"
  /\ chainID = <<>> /\ chainSigner = <<>>
  /\ Nonce = <<>> /\ GasLimit = <<>> /\ GasPrice = <<>>
  /\ DryRun = FALSE /\ byWhat = "" /\ TotalValue = <<>>
  /\ accountStats = <<>> /\ canSaveDB = FALSE /\ idx = 0 /\ rewardsSended = 0
  /\ output = <<>> /\ pc = "idle" /\ ret = ""
  /\ attempts = <<>>
  /\ lastSend = [pre |-> 0, live |-> <<>>, carried |-> 0, post |-> 0, outcome |-> "none"]
  /\ balanceChecked = "no"
  /\ fileRead = <<>>

NoCallYet ==
  /\ gwOp = "none"
  /\ gwResp = [i \in 1..MaxClients |-> [err |-> 0, val |-> 0]]
  /\ gwRet = ZeroRet
  /\ gwTries = <<>>
  /\ gwSleeps = 0

\* NewDefaultAPICaller: rpcRetryCount: 3
DefaultRetryCount == 3

\* NewAPICaller(ctx, retryCount, retryInterval): any retry count, zero and less included
RetryCounts == -1..MaxRetry

\* ------------------------------------------------------------- the gateway on its own
GatewayInit ==
  /\ clients = <<>>
  /\ gw \in {"callapi", "syncer"}
  /\ gwPc = "dial"
  /\ serverURL = <<>> /\ dialOk = <<>>
  /\ dialled = <<>> /\ dialErr = 0
  /\ rpcRetryCount \in RetryCounts
  /\ NoCallYet
  /\ PipelineIdle

GatewayNext ==
  \/ DialServer
  \/ CallBalanceAt
  \/ CallGetAccountNonce
  \/ CallSendTransaction
  \/ CallGetChainID
  \/ CallSuggestGasPrice
  \/ CallSyncProgress
  \/ CallDoCall
  \/ CallHeaderByNumber
  \/ CallGetCoinBalance
  \/ CallCallContract
  \/ CallgetHeaderByNumber
  \/ CallgetBlockByNumber
  \/ CallgetTransactionReceipt

GatewaySpec == GatewayInit /\ [][GatewayNext]_vars

\* ------------------------------------------------------------- BuildTxArgs

\* What an endpoint answers the pipeline: an error, or a value from vals.
PipeAnswers(vals) == [err : {1}, val : {0}] \cup [err : {0}, val : vals]

\* One answer per connected endpoint.
PipeResp(vals) == [{clients[i] : i \in 1..Len(clients)} -> PipeAnswers(vals)]

\* The chain identifier and the gas price the endpoints report.
ChainIDs == {46688}
GasPrices == {1}

\* gas limit used when none is supplied
DefaultGasLimit == 90000

\* common.IsHexAddress: 40 hex digits, with or without the 0x prefix.  "bad" is no
\* address; "A", "B" and "Z" (the zero address) are addresses as Address.String()
\* prints them (0x and checksum case); "a" is A in lower case; "a-no0x" is A without
\* the prefix.
IsHexAddress(s) == s \in {"a", "a-no0x", "A", "B", "Z"}

\* common.HexToAddress(s).String(): the address in its canonical (checksummed) form
HexToAddress(s) == IF s \in {"a", "a-no0x"} THEN "A" ELSE s

\* strings.ToLower, as far as strings.EqualFold needs it
Lower(s) == IF s = "A" THEN "a" ELSE s

\* strings.EqualFold
EqualFold(s, t) == Lower(s) = Lower(t)

\* loadKeyStore: ok says whether both files are read and the key decrypts (to address A)
loadKeyStore(ok) ==
  IF ~ok
    THEN [err |-> "keystore", keyWrapper |-> keyWrapper, fromAddr |-> fromAddr, Sender |-> Sender]
    ELSE [err |-> "", keyWrapper |-> <<"keyA">>, fromAddr |-> "A",
          Sender |-> IF Sender = "" THEN "A" ELSE Sender]

\* The command ends with err ("" for success).
Exit(err) == pc' = "exit" /\ ret' = err

\* BuildTxArgs.Check(dryRun), up to its call of setDefaults
Check ==
  /\ pc = "start"
  /\ IF Sender # "" /\ ~IsHexAddress(Sender)
       THEN /\ Exit("wrong sender address")
            /\ UNCHANGED <<Sender, keyWrapper, fromAddr>>
       ELSE \E ok \in BOOLEAN :
              LET k == loadKeyStore(ok)
                  ignored == k.err # "" /\ DryRun
                  from1 == IF ignored /\ k.Sender # "" THEN HexToAddress(k.Sender) ELSE k.fromAddr
                  sender1 == IF ignored /\ k.Sender = "" THEN k.fromAddr ELSE k.Sender
              IN IF k.err # "" /\ ~DryRun
                   THEN /\ Exit(k.err)
                        /\ UNCHANGED <<Sender, keyWrapper, fromAddr>>
                   ELSE /\ Sender' = sender1
                        /\ keyWrapper' = k.keyWrapper
                        /\ fromAddr' = from1
                        /\ IF ~EqualFold(sender1, from1)
                             THEN Exit("sender mismatch")
                             ELSE pc' = "setDefaults" /\ ret' = ret
  /\ UNCHANGED <<gwVars, chainID, chainSigner, Nonce, GasLimit, GasPrice, optVars,
                 accountStats, canSaveDB, idx, rewardsSended, output, attempts, lastSend,
                 balanceChecked, fileRead>>

\* The answers asked for only when the query is made.
AskIf(needed, vals) == IF needed THEN PipeResp(vals) ELSE {[c \in {} |-> 0]}

\* Whether types.SignTx fails, where it is called at all (not after an early return).
SignErrs(early) == IF early THEN {FALSE} ELSE BOOLEAN

\* A variant that sets the default gas limit over a supplied one.
GasLimitAlwaysDefault(limit) == <<DefaultGasLimit>>

\* if args.GasLimit == nil { defaultGasLimit := uint64(90000); args.GasLimit = &defaultGasLimit }
GasLimitOrDefault(limit) == IF limit = <<>> THEN <<DefaultGasLimit>> ELSE limit

\* One pass of setDefaults' for loop: continue on the first failing query, break at the end.
setDefaults ==
  /\ pc = "setDefaults"
  /\ \E cresp \in AskIf(chainID = <<>>, ChainIDs),
        nresp \in AskIf(Nonce = <<>>, 0..MaxLiveNonce),
        gresp \in AskIf(GasPrice = <<>>, GasPrices) :
       LET c == IF chainID = <<>> THEN GetChainID(clients, cresp) ELSE ZeroRet
           n == IF Nonce = <<>> THEN GetAccountNonce(clients, nresp) ELSE ZeroRet
           g == IF GasPrice = <<>> THEN SuggestGasPrice(clients, gresp) ELSE ZeroRet
       IN IF c.err # 0
            THEN UNCHANGED <<chainID, chainSigner, Nonce, GasPrice, GasLimit, pc>>
            ELSE /\ chainID' = IF chainID = <<>> THEN <<c.val>> ELSE chainID
                 /\ chainSigner' = IF chainID = <<>> THEN <<c.val>> ELSE chainSigner
                 /\ IF n.err # 0
                      THEN UNCHANGED <<Nonce, GasPrice, GasLimit, pc>>
                      ELSE /\ Nonce' = IF Nonce = <<>> THEN <<n.val>> ELSE Nonce
                           /\ IF g.err # 0
                                THEN UNCHANGED <<GasPrice, GasLimit, pc>>
                                ELSE /\ GasPrice' = IF GasPrice = <<>> THEN <<g.val>> ELSE GasPrice
                                     /\ GasLimit' = GasLimitOrDefault(GasLimit)
                                     /\ pc' = "ready"
  /\ UNCHANGED <<gwVars, Sender, keyWrapper, fromAddr, optVars,
                 accountStats, canSaveDB, idx, rewardsSended, output, ret, attempts, lastSend,
                 balanceChecked, fileRead>>

\* the token contract the transfers are sent to (Option.RewardToken)
RewardToken == "token"

\* types.NewTransaction(nonce, rewardToken, 0, gasLimit, gasPrice, data) with
\* data = transfer selector, account, reward
NewTransaction(nonce, account, reward, rewardToken) ==
  [nonce |-> nonce, to |-> rewardToken, value |-> 0,
   gasLimit |-> GasLimit[1], gasPrice |-> GasPrice[1],
   data |-> <<"a9059cbb", account, reward>>]

\* What sendRewardsTransaction leaves behind when it neither signs nor submits.
NoSend == [pre |-> 0, live |-> <<>>, carried |-> 0, post |-> 0, outcome |-> "none"]

\* A variant that returns early for no call.
ReturnsBeforeBuildingNever(dryRun) == FALSE

\* if dryRun { return txHash, nil }
ReturnsBeforeBuilding(dryRun) == dryRun

\* A variant that keeps the cached nonce whatever the live one is.
ReconcileNonceIgnoreLive(cached, q) == cached

\* A variant that compares the wrong way round: it adopts a lower live nonce.
ReconcileNonceTakeLower(cached, q) == IF q.err = 0 /\ q.val < cached THEN q.val ELSE cached

\* A variant that adopts the live nonce whenever the query succeeds.
ReconcileNonceAdoptLive(cached, q) == IF q.err = 0 THEN q.val ELSE cached

\* nonce, err := capi.GetAccountNonce(from); if err == nil { if nonce > *args.Nonce { *args.Nonce = nonce } }
ReconcileNonce(cached, q) == IF q.err = 0 /\ q.val > cached THEN q.val ELSE cached

\* A variant that advances the nonce whether or not the submission succeeded.
NonceAfterAlwaysAdvance(carried, err) == carried + 1

\* *args.Nonce++ is reached only when signing and sending returned no error.
NonceAfter(carried, err) == IF err = "" THEN carried + 1 ELSE carried

\* BuildTxArgs.sendRewardsTransaction(account, reward, rewardToken, dryRun): the
\* endpoints answer the nonce query with nresp and the submission with sresp, and
\* signErr says whether types.SignTx fails.  The result: the returned txHash and err,
\* the cached nonce afterwards, the pass through signing and sending (att), and its
\* nonce bookkeeping (last).
sendRewardsTransaction(account, reward, rewardToken, dryRun, nresp, signErr, sresp) ==
  IF ReturnsBeforeBuilding(dryRun)
    THEN [txHash |-> <<>>, err |-> "", Nonce |-> Nonce, att |-> <<>>, last |-> NoSend]
    ELSE
      LET q == GetAccountNonce(clients, nresp)
          pre == Nonce[1]
          n1 == ReconcileNonce(pre, q)
          rawTx == NewTransaction(n1, account, reward[1], rewardToken)
          \* the calls of capi.SendTransaction(signedTx): none when signing did not
          \* return a signed transaction, else the one call and what it returned
          sent == IF keyWrapper = <<>> \/ signErr THEN <<>>
                  ELSE <<SendTransaction(clients, sresp)>>
          \* args.keyWrapper.PrivateKey with a nil keyWrapper: the process panics
          err == IF keyWrapper = <<>> THEN "panic"
                 ELSE IF signErr THEN "sign tx failed"
                 ELSE IF sent[1].err # 0 THEN "send tx failed"
                 ELSE ""
          post == NonceAfter(n1, err)
      IN [txHash |-> IF err = "" THEN <<[tx |-> rawTx, chain |-> chainSigner]>> ELSE <<>>,
          err |-> err,
          Nonce |-> <<post>>,
          att |-> IF err = "panic" THEN <<>>
                  ELSE <<[account |-> account, tx |-> rawTx, err |-> err,
                          submits |-> Len(sent)]>>,
          last |-> [pre |-> pre, live |-> IF q.err = 0 THEN <<q.val>> ELSE <<>>,
                    carried |-> n1, post |-> post,
                    outcome |-> IF err = "" THEN "sent" ELSE err]]

\* ------------------------------------------------------------- Option

\* The reward amounts an input line can carry: nil, negative, zero, positive.
Rewards == {<<>>, <<-1>>, <<0>>, <<5>>}

\* The account lists GetAccountsAndRewardsFromFile can return: the i-th line's account is i.
Batches ==
  UNION {[1..n -> Rewards] : n \in 0..MaxEntries}

AccountStats(rewards) == [i \in 1..Len(rewards) |-> [Account |-> i, Reward |-> rewards[i]]]

\* A title line, as the parts blankOrCommaSepRegexp splits it into.
TitleOf(first, methodID) == <<first, "reward", methodID, "share", "number">>

\* The title lines an input file can start with: a good one, one naming an unknown
\* method, one that is no comment, one with four parts.
Titles ==
  {TitleOf("#account", "liquid"), TitleOf("#account", "bogus"), TitleOf("account", "liquid"),
   <<"#account", "reward", "liquid", "share">>}

\* isCommentedLine: the line starts with '#'
isCommentedLine(parts) == Len(parts) > 0 /\ parts[1] = "#account"

\* the reward classifications SetByWhat knows
KnownByWhat == {"liquid", "volume"}

\* GetStandardByWhat
GetStandardByWhat(methodID) == methodID

\* Option.SetByWhat(methodID): the error and opt.byWhat afterwards
SetByWhat(methodID) ==
  IF methodID \in KnownByWhat
    THEN [err |-> "", byWhat |-> GetStandardByWhat(methodID)]
    ELSE [err |-> "unknown byWhat", byWhat |-> byWhat]

\* A variant that accepts a title line of any shape.
checkTitleLineAny(titleLine) == [err |-> "", byWhat |-> byWhat]

\* Option.checkTitleLine(titleLine): the error and opt.byWhat afterwards
checkTitleLine(titleLine) ==
  IF ~isCommentedLine(titleLine)
    THEN [err |-> "title line is not comment line", byWhat |-> byWhat]
  ELSE IF Len(titleLine) < 5
    THEN [err |-> "title line parts is less than 5", byWhat |-> byWhat]
  ELSE IF byWhat = ""
    THEN SetByWhat(titleLine[3])
  ELSE IF byWhat # GetStandardByWhat(titleLine[3])
    THEN [err |-> "byWhat mismatch", byWhat |-> byWhat]
  ELSE [err |-> "", byWhat |-> byWhat]

\* addTxHashFieldToTitleLine
addTxHashFieldToTitleLine(titleLine) ==
  IF Len(titleLine) <= 1
    THEN Append(titleLine, "txhash")
    ELSE SubSeq(titleLine, 1, Len(titleLine) - 1) \o <<"txhash", titleLine[Len(titleLine)]>>

\* AccountStatSlice.CalcTotalReward: the sum of the rewards (a nil reward adds nothing)
RECURSIVE CalcTotalReward(_)
CalcTotalReward(stats) ==
  IF Len(stats) = 0 THEN 0
  ELSE (IF stats[1].Reward = <<>> THEN 0 ELSE stats[1].Reward[1]) + CalcTotalReward(Tail(stats))

\* The sender's token balance as the query returns it: failed, one short, or exact.
BalancesFor(total) == {<<>>, <<total - 1>>, <<total>>}

\* Option.CheckSenderRewardTokenBalance with opt.TotalValue = total
CheckSenderRewardTokenBalance(total, balance) ==
  IF balance = <<>> THEN "get balance failed"
  ELSE IF balance[1] < total THEN "not enough reward token balance"
  ELSE ""

\* The lines of the output file.
TitleRow(parts) == [form |-> "title", title |-> parts, account |-> 0, reward |-> 0, txHash |-> <<>>]
BodyRow(form, account, reward, txHash) ==
  [form |-> form, title |-> <<>>, account |-> account, reward |-> reward, txHash |-> txHash]

\* Option.WriteOutput(line): the line is appended to the output
WriteOutput(out, parts) == Append(out, TitleRow(parts))

\* Option.WriteSendRewardResult(stat, txHash)
WriteSendRewardResult(out, stat, txHash) ==
  Append(out, BodyRow("stat", stat.Account, stat.Reward[1], txHash))

\* Option.WriteSendRewardFromFileResult(account, reward, txHash)
WriteSendRewardFromFileResult(out, account, reward, txHash) ==
  Append(out, BodyRow("file", account, reward[1], txHash))

\* What checkSendRewardsFromFile is given: opt.InputFile and opt.SaveDB, what the file
\* loader returns, and whether CheckBasic returns nil.
CheckInputs ==
  {[file |-> "", loadErr |-> FALSE, stats |-> <<>>, title |-> <<>>, basicOK |-> FALSE,
    SaveDB |-> FALSE],
   [file |-> "f", loadErr |-> TRUE, stats |-> <<>>, title |-> <<>>, basicOK |-> FALSE,
    SaveDB |-> FALSE]}
  \cup [file : {"f"}, loadErr : {FALSE}, stats : {AccountStats(b) : b \in Batches},
        title : Titles, basicOK : BOOLEAN, SaveDB : BOOLEAN]

\* What checkSendRewardsFromFile returns when it stops before the account list is used.
Stopped(err) ==
  [stats |-> <<>>, canSaveDB |-> FALSE, err |-> err, byWhat |-> byWhat,
   TotalValue |-> TotalValue, write |-> <<>>, balance |-> "no"]

\* The title written for the run: the original, the original with a txhash column, or
\* the three-column fallback.
TitleToWrite(titleLine, canSave) ==
  IF DryRun THEN titleLine
  ELSE IF canSave THEN addTxHashFieldToTitleLine(titleLine)
  ELSE <<"#account", "reward", "txhash">>

\* A variant that takes no account list for empty.
EmptyListNever(stats) == FALSE

\* if len(accountStats) == 0 { ...; return nil, false, nil }
EmptyList(stats) == Len(stats) = 0

\* A variant that writes the title before the balance and the database are checked.
checkSendRewardsFromFileWriteFirst(in, balance) ==
  LET t == checkTitleLine(in.title)
      total == CalcTotalReward(in.stats)
      b == CheckSenderRewardTokenBalance(total, balance)
      w == <<TitleToWrite(in.title, in.basicOK)>>
  IN IF in.file = "" THEN Stopped("must specify input file")
     ELSE IF in.loadErr THEN Stopped("get accounts and rewards from input file failed")
     ELSE IF EmptyList(in.stats) THEN Stopped("")
     ELSE IF t.err # "" THEN Stopped(t.err)
     ELSE IF b # ""
       THEN [Stopped(b) EXCEPT !.byWhat = t.byWhat, !.TotalValue = <<total>>,
                               !.balance = "failed", !.write = w]
     ELSE IF ~in.basicOK /\ in.SaveDB
       THEN [Stopped("can not savedb") EXCEPT !.byWhat = t.byWhat, !.TotalValue = <<total>>,
                                              !.balance = "passed", !.write = w]
     ELSE [stats |-> in.stats, canSaveDB |-> in.basicOK, err |-> "", byWhat |-> t.byWhat,
           TotalValue |-> <<total>>, write |-> w, balance |-> "passed"]

\* Option.checkSendRewardsFromFile: what it returns (stats, canSaveDB, err), what it
\* leaves in opt (byWhat, TotalValue), the title it writes (write), and how far the
\* balance check got (balance)
checkSendRewardsFromFile(in, balance) ==
  LET t == checkTitleLine(in.title)
      total == CalcTotalReward(in.stats)
      b == CheckSenderRewardTokenBalance(total, balance)
  IN IF in.file = "" THEN Stopped("must specify input file")
     ELSE IF in.loadErr THEN Stopped("get accounts and rewards from input file failed")
     ELSE IF EmptyList(in.stats) THEN Stopped("")
     ELSE IF t.err # "" THEN Stopped(t.err)
     ELSE IF b # ""
       THEN [Stopped(b) EXCEPT !.byWhat = t.byWhat, !.TotalValue = <<total>>,
                               !.balance = "failed"]
     ELSE IF ~in.basicOK /\ in.SaveDB
       THEN [Stopped("can not savedb") EXCEPT !.byWhat = t.byWhat, !.TotalValue = <<total>>,
                                              !.balance = "passed"]
     ELSE [stats |-> in.stats, canSaveDB |-> in.basicOK, err |-> "", byWhat |-> t.byWhat,
           TotalValue |-> <<total>>, write |-> <<TitleToWrite(in.title, in.basicOK)>>,
           balance |-> "passed"]

\* SendRewardsFromFile up to its loop: the check, and the return on its error
SendRewardsFromFileBegin ==
  /\ pc = "ready"
  /\ \E in \in CheckInputs :
       \E balance \in BalancesFor(CalcTotalReward(in.stats)) :
         LET c == checkSendRewardsFromFile(in, balance)
         IN /\ byWhat' = c.byWhat
            /\ TotalValue' = c.TotalValue
            /\ balanceChecked' = c.balance
            /\ fileRead' = IF in.file = "" \/ in.loadErr THEN <<>>
                            ELSE <<[entries |-> Len(in.stats), title |-> in.title]>>
            /\ output' = IF c.write = <<>> THEN output ELSE WriteOutput(output, c.write[1])
            /\ accountStats' = c.stats
            /\ canSaveDB' = c.canSaveDB
            /\ IF c.err # ""
                 THEN Exit(c.err) /\ UNCHANGED <<idx, rewardsSended>>
                 ELSE pc' = "loop" /\ ret' = ret /\ idx' = 1 /\ rewardsSended' = 0
  /\ UNCHANGED <<gwVars, argsVars, DryRun, attempts, lastSend>>

\* Option.SendRewardsTransaction(account, reward)
SendRewardsTransaction(account, reward, nresp, signErr, sresp) ==
  sendRewardsTransaction(account, reward, RewardToken, DryRun, nresp, signErr, sresp)

\* A variant that sends a zero reward.
IgnoresRewardNegativeOnly(reward) == reward = <<>> \/ reward[1] < 0

\* if reward == nil || reward.Sign() <= 0 { continue }
IgnoresReward(reward) == reward = <<>> \/ reward[1] <= 0

\* A variant that goes on after a failed send.
ReturnsOnSendErrorNever(err) == FALSE

\* if err != nil { ...; return fmt.Errorf("[sendRewards] send tx failed") }
ReturnsOnSendError(err) == err # ""

\* A variant that stays on the same entry.
NextEntrySame(i) == i

\* for _, stat := range accountStats: the entry after the i-th
NextEntry(i) == i + 1

\* One pass of SendRewardsFromFile's loop, for the entry at idx.
SendRewardsFromFileEntry ==
  /\ pc = "loop"
  /\ idx <= Len(accountStats)
  /\ LET stat == accountStats[idx]
     IN IF IgnoresReward(stat.Reward)
          THEN /\ idx' = NextEntry(idx)
               /\ UNCHANGED <<Nonce, rewardsSended, output, pc, ret, attempts, lastSend>>
          ELSE \E nresp \in AskIf(~ReturnsBeforeBuilding(DryRun), 0..MaxLiveNonce),
                  signErr \in SignErrs(ReturnsBeforeBuilding(DryRun)) :
               \E sresp \in AskIf(~ReturnsBeforeBuilding(DryRun) /\ ~signErr, {0}) :
                 LET r == SendRewardsTransaction(stat.Account, stat.Reward, nresp, signErr, sresp)
                 IN /\ Nonce' = r.Nonce
                    /\ attempts' = attempts \o r.att
                    /\ lastSend' = r.last
                    /\ IF r.err = "panic"
                         THEN /\ pc' = "panic" /\ ret' = ret
                              /\ UNCHANGED <<idx, rewardsSended, output>>
                       ELSE IF ReturnsOnSendError(r.err)
                         THEN /\ Exit("[sendRewards] send tx failed")
                              /\ UNCHANGED <<idx, rewardsSended, output>>
                       ELSE /\ rewardsSended' = rewardsSended + stat.Reward[1]
                            /\ output' = IF DryRun \/ canSaveDB
                                 THEN WriteSendRewardResult(output, stat, r.txHash)
                                 ELSE WriteSendRewardFromFileResult(output, stat.Account,
                                                                    stat.Reward, r.txHash)
                            /\ idx' = NextEntry(idx)
                            /\ pc' = pc /\ ret' = ret
  /\ UNCHANGED <<gwVars, Sender, keyWrapper, fromAddr, chainID, chainSigner, GasLimit, GasPrice,
                 optVars, accountStats, canSaveDB, balanceChecked, fileRead>>

\* SendRewardsFromFile after its loop: return nil
SendRewardsFromFileEnd ==
  /\ pc = "loop"
  /\ idx > Len(accountStats)
  /\ Exit("")
  /\ UNCHANGED <<gwVars, argsVars, optVars, accountStats, canSaveDB, idx, rewardsSended,
                 output, attempts, lastSend, balanceChecked, fileRead>>

\* ------------------------------------------------------------- the sendrewards command

\* The sender flag: none, no address, A in lower case, B, A without the 0x prefix.
Senders == {"", "bad", "a", "B", "a-no0x"}

\* The gas limit and gas price flags: none, a gas limit, or a gas price.
GasFlags == {<<<<>>, <<>>>>, <<<<21000>>, <<>>>>, <<<<>>, <<3>>>>}

\* The sendrewards command after its gateway is dialled: the flags give the sender,
\* the explicit nonce, gas limit and gas price (or none), and the run's options.
Init ==
  /\ clients = <<1, 2>>
  /\ gw = "callapi"
  /\ gwPc = "up"
  /\ serverURL = <<1, 2>> /\ dialOk = <<TRUE, TRUE>>
  /\ dialled = <<1, 2>> /\ dialErr = 0
  /\ rpcRetryCount = DefaultRetryCount
  /\ NoCallYet
  /\ Sender \in Senders
  /\ keyWrapper = <<>>
  /\ fromAddr = "Z"
  /\ chainID = <<>>
  /\ chainSigner = <<>>
  /\ Nonce \in {<<>>, <<1>>}
  /\ \E g \in GasFlags : GasLimit = g[1] /\ GasPrice = g[2]
  /\ DryRun \in BOOLEAN
  /\ byWhat \in {"", "liquid", "volume"}
  /\ TotalValue = <<>>
  /\ accountStats = <<>> /\ canSaveDB = FALSE /\ idx = 0 /\ rewardsSended = 0
  /\ output = <<>>
  /\ pc = "start" /\ ret = ""
  /\ attempts = <<>>
  /\ lastSend = NoSend
  /\ balanceChecked = "no"
  /\ fileRead = <<>>

Next ==
  \/ Check
  \/ setDefaults
  \/ SendRewardsFromFileBegin
  \/ SendRewardsFromFileEntry
  \/ SendRewardsFromFileEnd

Spec == Init /\ [][Next]_vars

\* ------------------------------------------------------------- parameter resolution

\* BuildTxArgs.Check on its own, up to the return of setDefaults.
ResolveNext ==
  \/ Check
  \/ setDefaults

\* Each of the three queries eventually succeeds: a pass of setDefaults' loop in which
\* the pending query is answered (a pass that changes the state) eventually happens.
ResolveSpec == Init /\ [][ResolveNext]_vars /\ WF_vars(setDefaults)

\* ------------------------------------------------------------- the two together

\* The gateway on its own, or the sendrewards command over its dialled gateway.
ProgramInit == GatewayInit \/ Init

ProgramNext ==
  \/ pc = "idle" /\ GatewayNext
  \/ pc # "idle" /\ Next

ProgramSpec == ProgramInit /\ [][ProgramNext]_vars

\* ------------------------------------------------------------- claims about the pipeline

\* An entry that is to be paid: its reward is there and greater than zero.
Positive(stat) == stat.Reward # <<>> /\ stat.Reward[1] > 0

\* The accounts of the positive-reward entries among the first n entries, in input order.
PositiveAccounts(n) ==
  LET pos == SelectSeq(SubSeq(accountStats, 1, n), Positive)
  IN [i \in 1..Len(pos) |-> pos[i].Account]

\* The ledger lines after the title line.
LedgerRows == IF output = <<>> THEN <<>> ELSE Tail(output)

\* The accounts of the ledger lines, in the order written.
LedgerAccounts == [i \in 1..Len(LedgerRows) |-> LedgerRows[i].account]

\* The accounts a transaction was signed for (and, unless signing failed, submitted).
AttemptAccounts == [i \in 1..Len(attempts) |-> attempts[i].account]

\* SendRewardsFromFile returned nil.
ReturnedSuccess == pc = "exit" /\ ret = ""

\* SendRewardsFromFile returned its send error.
ReturnedSendError == pc = "exit" /\ ret = "[sendRewards] send tx failed"

\* C1: in a run that is no dry run, transactions are submitted for entries in strictly
\* increasing input position (so at most once per entry), a submission that failed is
\* the last one of the run (nothing is re-submitted and the run has returned its
\* error), every entry submitted for is a positive-reward entry already reached, and a
\* run that returned success has made exactly one submission, a successful one, for
\* every positive-reward entry.
C1_OneSubmissionPerEntry ==
  ~DryRun =>
    /\ \A i, j \in 1..Len(attempts) : i < j => attempts[i].account < attempts[j].account
    /\ \A i \in 1..Len(attempts) :
         /\ attempts[i].account \in 1..Len(accountStats)
         /\ attempts[i].account <= idx
         /\ Positive(accountStats[attempts[i].account])
         /\ attempts[i].err # "" => (i = Len(attempts) /\ ReturnedSendError)
         /\ attempts[i].err = "" => attempts[i].account < idx
    /\ ReturnedSuccess =>
         /\ AttemptAccounts = PositiveAccounts(Len(accountStats))
         /\ \A i \in 1..Len(attempts) : attempts[i].err = ""

\* C1's case: a run of three entries returned success after two submissions.
C1_Witness ==
  /\ ~DryRun /\ ReturnedSuccess
  /\ Len(accountStats) = 3
  /\ Len(attempts) = 2

\* C2: whenever the send for an entry failed, the run has returned its error at that
\* entry, the output holds the title line and then exactly one line per positive-reward
\* entry before the failed one, in input order and each with a transaction hash, and
\* nothing was signed or submitted for a later entry.
C2_FailFast ==
  \A i \in 1..Len(attempts) :
    attempts[i].err # "" =>
      /\ ReturnedSendError
      /\ idx = attempts[i].account
      /\ i = Len(attempts)
      /\ Len(output) = 1 + (Len(PositiveAccounts(idx)) - 1)
      /\ output[1].form = "title"
      /\ LedgerAccounts = PositiveAccounts(idx - 1)
      /\ \A r \in 1..Len(LedgerRows) : LedgerRows[r].txHash # <<>>
      /\ \A j \in 1..Len(attempts) : attempts[j].account <= idx

\* C2's case: the second of three positive-reward entries failed; the output holds the
\* title and one line, and the third entry was never reached.
C2_Witness ==
  /\ Len(accountStats) = 3
  /\ \A i \in 1..3 : Positive(accountStats[i])
  /\ Len(attempts) = 2
  /\ attempts[2].err = "send tx failed"
  /\ Len(output) = 2
  /\ idx = 2

\* C3: nothing is signed, submitted or written for an entry whose reward is nil, zero
\* or negative; such an entry never fails the run (the run fails only at a
\* positive-reward entry); and processing goes on past it: while the loop runs and
\* when it returned success, the ledger holds a line for every positive-reward entry
\* before the current one.
C3_SkipNonPositive ==
  /\ \A i \in 1..Len(attempts) : Positive(accountStats[attempts[i].account])
  /\ \A r \in 1..Len(LedgerRows) : Positive(accountStats[LedgerRows[r].account])
  /\ ReturnedSendError => Positive(accountStats[idx])
  /\ (pc = "loop" \/ (ReturnedSuccess /\ idx > 0)) => LedgerAccounts = PositiveAccounts(idx - 1)

\* C3's case: the batch [(1, 0), (2, 5), (3, -1)] sent to account 2 only and succeeded.
C3_Witness ==
  /\ ~DryRun /\ ReturnedSuccess
  /\ Len(accountStats) = 3
  /\ accountStats[1].Reward = <<0>>
  /\ accountStats[2].Reward = <<5>>
  /\ accountStats[3].Reward = <<-1>>
  /\ AttemptAccounts = <<2>>
  /\ LedgerAccounts = <<2>>

\* C4 (state part): in a dry run nothing is signed or submitted, no ledger line carries
\* a transaction hash, and the ledger holds one line per positive-reward entry
\* processed so far, in input order (all of them once the run returned success).
C4_DryRunLedger ==
  DryRun =>
    /\ attempts = <<>>
    /\ lastSend = NoSend
    /\ \A r \in 1..Len(LedgerRows) : LedgerRows[r].txHash = <<>>
    /\ (pc = "loop" \/ (ReturnedSuccess /\ idx > 0)) =>
         /\ LedgerAccounts = PositiveAccounts(idx - 1)
         /\ ReturnedSuccess => idx = Len(accountStats) + 1

\* C4: a dry run signs and submits nothing, writes one hash-less ledger line per
\* positive-reward entry, and no step of SendRewardsFromFile changes the cached nonce.
C4_DryRun ==
  /\ []C4_DryRunLedger
  /\ [][(DryRun /\ pc \in {"ready", "loop"}) => Nonce' = Nonce]_vars

\* C4's case: a dry run over three entries, two of them positive, returned success.
C4_Witness ==
  /\ DryRun /\ ReturnedSuccess
  /\ Len(accountStats) = 3
  /\ Len(output) = 3

\* What checkSendRewardsFromFile returns when the input, the title line, the balance
\* or the save-to-database precondition is not as required.
ValidationErrors ==
  {"must specify input file", "get accounts and rewards from input file failed",
   "title line is not comment line", "title line parts is less than 5",
   "unknown byWhat", "byWhat mismatch",
   "get balance failed", "not enough reward token balance", "can not savedb"}

\* C5: a run that returned a validation error has written nothing to the output and
\* has signed and submitted nothing, and whenever anything was signed or submitted the
\* balance check had passed before.
C5_ValidationFirst ==
  /\ (pc = "exit" /\ ret \in ValidationErrors) => (output = <<>> /\ attempts = <<>>)
  /\ attempts # <<>> => balanceChecked = "passed"
  /\ output # <<>> => balanceChecked = "passed"

\* C5's case: the balance check failed after the title line was accepted.
C5_Witness ==
  /\ pc = "exit"
  /\ ret = "not enough reward token balance"
  /\ balanceChecked = "failed"
  /\ output = <<>>

\* C6: the transaction built by the last pass through sendRewardsTransaction carries
\* the live nonce when the query succeeded with a value greater than the cached one,
\* and the cached nonce otherwise (query failed, or live <= cached).
C6_NonceReconciliation ==
  lastSend.outcome # "none" =>
    /\ lastSend.carried =
         IF lastSend.live # <<>> /\ lastSend.live[1] > lastSend.pre
           THEN lastSend.live[1] ELSE lastSend.pre
    /\ attempts # <<>>
    /\ attempts[Len(attempts)].tx.nonce = lastSend.carried
    /\ Nonce[1] >= lastSend.carried

\* C6's case: the live nonce was two above the cached one and the send failed.
C6_Witness ==
  /\ lastSend.outcome = "send tx failed"
  /\ lastSend.live = <<lastSend.pre + 2>>
  /\ Nonce = <<lastSend.pre + 2>>

\* C7: after the last submission the cached nonce is the nonce its transaction carried
\* plus one when it succeeded, and the nonce it carried when signing or sending failed.
C7_IncrementOnSuccess ==
  attempts # <<>> =>
    LET a == attempts[Len(attempts)]
    IN /\ a.err = "" => Nonce = <<a.tx.nonce + 1>>
       /\ a.err # "" => Nonce = <<a.tx.nonce>>

\* C7's case: a successful submission followed by a failed one.
C7_Witness ==
  /\ Len(attempts) = 2
  /\ attempts[1].err = ""
  /\ attempts[2].err = "sign tx failed"
  /\ Nonce = <<attempts[2].tx.nonce>>

\* Parameter resolution has completed and the command has not returned.
Resolved == pc \in {"ready", "loop"}

\* No step changes the chain identifier, the signer, the gas limit or the gas price.
ParametersKept ==
  /\ chainID' = chainID
  /\ chainSigner' = chainSigner
  /\ GasLimit' = GasLimit
  /\ GasPrice' = GasPrice

\* C8 as claimed: after resolution the chain identifier, signer, gas limit and gas
\* price never change, and the nonce changes only by an increment of exactly one after
\* a successful submission.
C8_OnlyIncrement ==
  [][Resolved =>
       /\ ParametersKept
       /\ \/ Nonce' = Nonce
          \/ (lastSend'.outcome = "sent" /\ Nonce' = <<Nonce[1] + 1>>)]_vars

\* C8 as amended: after resolution the chain identifier, signer, gas limit and gas
\* price never change, and the nonce changes only in a send that is no dry run: it is
\* raised to the live nonce when the query returned a greater one, and then
\* incremented by exactly one when the submission succeeded.
C8_RaiseOrIncrement ==
  [][Resolved =>
       /\ ParametersKept
       /\ \/ Nonce' = Nonce
          \/ /\ pc = "loop" /\ ~DryRun
             /\ LET live == lastSend'.live
                    raised == IF live # <<>> /\ live[1] > Nonce[1] THEN live[1] ELSE Nonce[1]
                IN Nonce' = <<raised + (IF lastSend'.outcome = "sent" THEN 1 ELSE 0)>>]_vars

\* C8's case: one successful send moved the cached nonce by three.
C8_Witness ==
  /\ lastSend.outcome = "sent"
  /\ lastSend.post = lastSend.pre + 3
  /\ Nonce = <<lastSend.post>>
  /\ chainID # <<>> /\ GasLimit # <<>> /\ GasPrice # <<>>

\* ------------------------------------------------------------- claims about the gateway

\* The failover operations of callapi.APICaller and of the syncer.
FailoverOps ==
  {"BalanceAt", "GetAccountNonce", "GetChainID", "SuggestGasPrice", "SyncProgress",
   "DoCall", "HeaderByNumber", "getHeaderByNumber", "getBlockByNumber",
   "getTransactionReceipt"}

\* The positions of the list whose endpoint answered without an error.
Healthy == {i \in 1..Len(clients) : gwResp[clients[i]].err = 0}

\* The position of the first healthy endpoint (only where Healthy # {}).
FirstHealthy == CHOOSE i \in Healthy : \A j \in Healthy : i <= j

\* C9 (state part): whenever a failover operation was called on a non-empty list whose
\* first healthy endpoint is at position i, it consulted exactly the endpoints at
\* positions 1..i, in list order, and returned endpoint i's value with a nil error.
C9_FirstHealthyWins ==
  (gwOp \in FailoverOps /\ Healthy # {}) =>
     /\ gwRet.err = 0
     /\ gwRet.val = gwResp[clients[FirstHealthy]].val
     /\ gwRet.tried = SubSeq(clients, 1, FirstHealthy)

\* C9: failover returns the first healthy endpoint's result and consults nothing after
\* it, and no call of an operation reorders, removes or adds an entry of the endpoint
\* list (the list changes only while it is dialled).
C9_Failover ==
  /\ []C9_FirstHealthyWins
  /\ [][gwPc = "up" => clients' = clients]_vars

\* C9's case: two endpoints, the first failed and the second answered.
C9_Witness ==
  /\ gwOp \in FailoverOps
  /\ Len(clients) = 2
  /\ gwResp[clients[1]].err # 0
  /\ gwResp[clients[2]].err = 0
  /\ gwRet.tried = clients

\* C10: whenever every endpoint of a non-empty list failed for a failover operation,
\* the operation tried each endpoint exactly once, in list order, and returned the
\* error of the last endpoint of the list.
C10_AllFailLastError ==
  (gwOp \in FailoverOps /\ Len(clients) > 0 /\ Healthy = {}) =>
     /\ gwRet.tried = clients
     /\ gwRet.err = gwResp[clients[Len(clients)]].err
     /\ gwRet.err # 0

\* C10's case: two endpoints failed with different errors.
C10_Witness ==
  /\ gwOp \in FailoverOps
  /\ Len(clients) = 2
  /\ Healthy = {}
  /\ gwResp[clients[1]].err # gwResp[clients[2]].err

\* ------------------------------------------------------------- claims about the retry wrappers

\* The retry-wrapped read operations of callapi.APICaller.
RetryOps == {"GetCoinBalance", "CallContract"}

\* The attempts before the last one of the last retry-wrapped call all failed.
EarlierFailed == \A i \in 1..(Len(gwTries) - 1) : gwTries[i].err # 0

\* The last retry-wrapped call made n attempts, of which exactly the last succeeded.
SucceededOnNth(n) ==
  /\ gwOp \in RetryOps
  /\ Len(gwTries) = n
  /\ EarlierFailed
  /\ gwTries[n].err = 0

\* Every attempt of the last retry-wrapped call failed (and there was one).
Exhausted ==
  /\ gwOp \in RetryOps
  /\ gwTries # <<>>
  /\ \A i \in 1..Len(gwTries) : gwTries[i].err # 0

\* C11: for every n >= 1, whenever a retry-wrapped read (GetCoinBalance, CallContract)
\* failed on its first n-1 attempts and succeeded on the n-th, it returned the value
\* of the n-th attempt with a nil error and slept the retry interval exactly n-1 times.
C11_SuccessOnNthAttempt ==
  \A n \in 1..MaxRetry :
    SucceededOnNth(n) =>
      /\ gwRet.err = 0
      /\ gwRet.val = gwTries[n].val
      /\ gwSleeps = n - 1

\* C12: whenever every attempt of a retry-wrapped read failed, it made exactly
\* rpcRetryCount attempts, slept only between two attempts (one time less than it
\* made attempts), and returned the error of the final attempt.
C12_Exhaustion ==
  Exhausted =>
    /\ Len(gwTries) = rpcRetryCount
    /\ gwSleeps <= Len(gwTries) - 1
    /\ gwRet.err = gwTries[Len(gwTries)].err

\* ------------------------------------------------------------- claims about the submission

\* The endpoints of the list occur in gwRet.tried at most once and in list order: the
\* endpoints tried are the first ones of the list.
TriedInListOrder == gwRet.tried = SubSeq(clients, 1, Len(gwRet.tried))

\* C13 (the call): a call of SendTransaction offered the transaction to the endpoints
\* in list order, each at most once, up to and including the first that accepted it
\* and to no endpoint after that one; it returned nil when an endpoint accepted, and
\* the last endpoint's error when every endpoint of the list refused; it made no
\* second round and did not sleep.
C13_SubmitCall ==
  gwOp = "SendTransaction" =>
    /\ TriedInListOrder
    /\ Healthy # {} =>
         /\ gwRet.err = 0
         /\ gwRet.tried = SubSeq(clients, 1, FirstHealthy)
    /\ (Healthy = {} /\ Len(clients) > 0) =>
         /\ gwRet.tried = clients
         /\ gwRet.err = gwResp[clients[Len(clients)]].err
         /\ gwRet.err # 0
    /\ gwTries = <<>>
    /\ gwSleeps = 0

\* C13 (the pipeline): every pass through sendRewardsTransaction that got a signed
\* transaction called SendTransaction exactly once, whatever that call returned, a
\* pass whose signing failed did not call it, and no entry has two passes.
C13_SubmitOncePerTransfer ==
  /\ \A i \in 1..Len(attempts) :
       attempts[i].submits = IF attempts[i].err = "sign tx failed" THEN 0 ELSE 1
  /\ \A i, j \in 1..Len(attempts) : i < j => attempts[i].account < attempts[j].account

\* C13: a submit call tries each endpoint at most once, in list order, stops at the
\* first success, returns nil on the first accepting endpoint and else the last
\* endpoint's error, and the pipeline submits exactly once per transfer, never retrying.
C13_SingleSubmit == C13_SubmitCall /\ C13_SubmitOncePerTransfer

\* C13's case: the first endpoint refused the transaction and the second accepted it.
C13_Witness ==
  /\ gwOp = "SendTransaction"
  /\ Len(clients) = 2
  /\ gwResp[clients[1]].err # 0
  /\ gwResp[clients[2]].err = 0
  /\ gwRet.err = 0
  /\ gwRet.tried = clients

\* ------------------------------------------------------------- claims about the dial

\* The urls of the list that cannot be connected, by position.
Unconnectable == {k \in 1..Len(serverURL) : ~dialOk[serverURL[k]]}

\* The position of the first url that cannot be connected (only where there is one).
FirstUnconnectable == CHOOSE k \in Unconnectable : \A j \in Unconnectable : k <= j

\* C14: a dial that failed called Dial for the urls in list order up to the first one
\* that cannot be connected and for none after it, returned that url's error, and left
\* the connections opened before it in the client list; no gateway operation was ever
\* called on such a gateway (an operation was called only after a dial that returned
\* nil, which connected every url of the list in order).
C14_DialFailFast ==
  /\ gwPc = "failed" =>
       /\ Unconnectable # {}
       /\ dialled = SubSeq(serverURL, 1, FirstUnconnectable)
       /\ dialErr = serverURL[FirstUnconnectable]
       /\ clients = SubSeq(serverURL, 1, FirstUnconnectable - 1)
       /\ gwOp = "none" /\ gwRet = ZeroRet /\ gwTries = <<>>
  /\ gwPc = "up" =>
       /\ Unconnectable = {}
       /\ dialled = serverURL /\ clients = serverURL /\ dialErr = 0
  /\ gwOp # "none" => gwPc = "up"

\* C14's case: of three urls the second cannot be connected; the first is connected,
\* the third was never dialled, and nothing was called.
C14_Witness ==
  /\ gwPc = "failed"
  /\ Len(serverURL) = 3
  /\ dialled = <<1, 2>>
  /\ clients = <<1>>
  /\ dialErr = 2
  /\ gwOp = "none"

\* ------------------------------------------------------------- claims about Check

\* Check has returned an error (it returns before setDefaults is called).
CheckFailed ==
  pc = "exit" /\ ret \in {"wrong sender address", "keystore", "sender mismatch"}

\* The keystore was read and decrypted, and the sender given by the caller is another
\* address than the decrypted one.
DecryptedOtherSender ==
  /\ pc # "start"
  /\ keyWrapper # <<>>
  /\ HexToAddress(Sender) # fromAddr

\* C15: when the keystore decrypted and the caller's sender is a different address
\* than the decrypted one, Check has returned the sender-mismatch error if the run is
\* no dry run, and in a dry run it has returned no error (parameter resolution goes on).
C15_IdentityMismatch ==
  DecryptedOtherSender =>
    /\ ~DryRun => (pc = "exit" /\ ret = "sender mismatch")
    /\ DryRun => ~CheckFailed

\* loadKeyStore was called and returned an error (a file could not be read, or the
\* key did not decrypt).
KeystoreFailed ==
  /\ pc # "start"
  /\ keyWrapper = <<>>
  /\ ~(pc = "exit" /\ ret = "wrong sender address")

\* C16: when the keystore could not be read or decrypted, Check has failed exactly if
\* the run is no dry run, and then nothing was resolved, signed or submitted; in a dry
\* run Check returned no error and the sender address of the run is the address the
\* caller declared (the zero address when the caller declared none).
C16_KeystoreFailure ==
  KeystoreFailed =>
    /\ ~DryRun =>
         /\ pc = "exit" /\ ret = "keystore"
         /\ chainID = <<>> /\ chainSigner = <<>> /\ attempts = <<>>
    /\ DryRun =>
         /\ ~CheckFailed
         /\ fromAddr = HexToAddress(Sender)

\* ------------------------------------------------------------- claims about setDefaults

\* setDefaults has returned: every parameter is set, the signer is the one of the
\* chain identifier.
AllResolved ==
  /\ chainID # <<>> /\ chainSigner = chainID
  /\ Nonce # <<>> /\ GasPrice # <<>> /\ GasLimit # <<>>

\* A pass of setDefaults' loop returns no failure (the loop goes on or has ended),
\* keeps every parameter that is set, and sets a missing gas limit to 90000 only.
ResolutionStep ==
  pc = "setDefaults" =>
    /\ pc' \in {"setDefaults", "ready"}
    /\ ret' = ret
    /\ chainID # <<>> => (chainID' = chainID /\ chainSigner' = chainSigner)
    /\ Nonce # <<>> => Nonce' = Nonce
    /\ GasPrice # <<>> => GasPrice' = GasPrice
    /\ GasLimit # <<>> => GasLimit' = GasLimit
    /\ (GasLimit = <<>> /\ GasLimit' # <<>>) => (GasLimit' = <<90000>> /\ pc' = "ready")

\* C17: setDefaults never returns a failure and never gives up; where each query
\* eventually succeeds it ends, with chain identifier, signer, nonce, gas price and gas
\* limit set, the gas limit being 90000 unless one was supplied, and a supplied nonce,
\* gas price and gas limit kept as given.
C17_Resolution ==
  /\ [](pc = "ready" => AllResolved)
  /\ [][ResolutionStep]_vars
  /\ (pc = "setDefaults") ~> (pc = "ready")

\* C17's case: resolution ended with the queried chain identifier and nonce, the
\* supplied gas price and the default gas limit.
C17_Witness ==
  /\ pc = "ready"
  /\ chainID = <<46688>>
  /\ Nonce = <<2>>
  /\ GasPrice = <<3>>
  /\ GasLimit = <<DefaultGasLimit>>

\* ------------------------------------------------------------- claims about error propagation

\* The run has returned an error to its caller.
ReturnedFailure == pc = "exit" /\ ret # ""

\* The last pass through sendRewardsTransaction asked for the live nonce and every
\* endpoint failed the query.
NonceQueryFailed == lastSend.outcome # "none" /\ lastSend.live = <<>>

\* C18: a failure met by the builder or the pipeline is reported by the run: when the
\* live-nonce query of a send fails, when signing or submitting fails, and when the
\* balance query or check fails, the run has returned an error.
C18_NothingSwallowed ==
  /\ NonceQueryFailed => ReturnedFailure
  /\ \A i \in 1..Len(attempts) : attempts[i].err # "" => ReturnedFailure
  /\ balanceChecked = "failed" => ReturnedFailure

\* ------------------------------------------------------------- claims about the empty input

\* The input file was read and gave an empty account list.
EmptyInput == fileRead # <<>> /\ fileRead[1].entries = 0

SentNonces ==
  LET ok == SelectSeq(attempts, LAMBDA a : a.err = "")
  IN [i \in 1..Len(ok) |-> ok[i].tx.nonce]

\* C20 (state part): the nonces of the accepted transactions are strictly increasing
\* in submission order, and the cached nonce is above all of them.
C20_SentNoncesIncrease ==
  /\ \A i, j \in 1..Len(SentNonces) : i < j => SentNonces[i] < SentNonces[j]
  /\ \A i \in 1..Len(SentNonces) : SentNonces[i] < Nonce[1]

\* C20: within a run no two accepted transactions carry the same nonce (their nonces
\* increase strictly in submission order) and no step lowers the cached nonce,
\* whatever the live-nonce queries return (higher, equal, lower, or an error).
C20_NonceOrder ==
  /\ []C20_SentNoncesIncrease
  /\ [][Nonce # <<>> => (Nonce' # <<>> /\ Nonce'[1] >= Nonce[1])]_vars

\* C20's case: two accepted transactions with consecutive nonces, the live nonce
\* reported before the second one being lower than the cached nonce.
C20_Witness ==
  /\ Len(SentNonces) = 2
  /\ SentNonces[2] = SentNonces[1] + 1
  /\ lastSend.outcome = "sent"
  /\ lastSend.live # <<>>
  /\ lastSend.live[1] < lastSend.pre

\* ------------------------------------------------------------- claims about a nil error

\* The last plain operation (a failover read or the submission) got a nil error from
\* an endpoint it called.
PlainCallSucceeded ==
  /\ gwRet.tried # <<>>
  /\ gwResp[gwRet.tried[Len(gwRet.tried)]].err = 0

\* The last retry-wrapped operation made an attempt in which an endpoint that was
\* called returned a nil error.
RetryCallSucceeded ==
  \E i \in 1..Len(gwTries) : gwTries[i].err = 0 /\ gwTries[i].tried # <<>>

\* C21: a gateway operation (failover read, retry-wrapped read, or submission) that
\* returned a nil error was answered with a nil error by at least one endpoint it
\* called during that invocation, for every client list (the empty one included) and
\* every retry count (zero and less included).
C21_NilOnlyOnSuccess ==
  /\ (gwOp \in FailoverOps \cup {"SendTransaction"} /\ gwRet.err = 0) => PlainCallSucceeded
  /\ (gwOp \in RetryOps /\ gwRet.err = 0) => RetryCallSucceeded

====
